---- MODULE Spec2Model ----
(***************************************************************************)
(* Model of the Helsinki AI Navigator: the static GTFS lookup loader       *)
(* (etl_static.py), the live vehicle decoder and the polling loop          *)
(* (app.py), and the POI batch of the enrichment job (etl_enrich.py).      *)
(*                                                                         *)
(* Python strings on which the code does string work (route and trip ids)  *)
(* are sequences of one-character strings, so that str.replace and the     *)
(* `in` substring test are computed, not assumed.  Strings the code only   *)
(* stores or uses as dictionary keys (headsigns, short names, route_type   *)
(* codes) are TLA+ strings.                                                *)
(***************************************************************************)
EXTENDS Integers, Sequences, FiniteSets, TLC

VARIABLES
    \* etl_static.load_static_lookups: the two input tables, the encoding of the
    \* process's standard output, and its result
    routesTable, tripsTable, stdout_encoding, routes_dict, trip_lookup, direction_lookup,
    \* headsign resolution of one decoded vehicle
    vehicle, resolved_headsign,
    \* id normalisation of two raw ids
    rawA, rawB, keyA, keyB,
    \* app.py polling loop and get_live_vehicles
    pc, tick, route_map, outcome, prev_outcome, feed, df, displayed, last_good, had_good,
    \* counters of the polling loop: requests awaiting their response, requests
    \* sent, charts published, seconds slept, seconds the request in flight
    \* has waited for the server
    in_flight, fetches, published, slept, waited,
    \* a stop or rerun of the script has been requested and not yet handled
    stop_requested,
    \* POI index and search
    poi_index, query, topK, results,
    \* app.py get_boarding_info: how the request ends, the edges of the response,
    \* the routes asked for, the successive readings of time.time(), and what the
    \* call returns
    resp, candidates, target_routes_list, clock, boarding

staticVars == <<routesTable, tripsTable, stdout_encoding, routes_dict, trip_lookup,
                direction_lookup>>
reconcileVars == <<vehicle, resolved_headsign>>
normVars == <<rawA, rawB, keyA, keyB>>
loopVars == <<pc, tick, route_map, outcome, prev_outcome, feed, df, displayed, last_good, had_good,
              in_flight, fetches, published, slept, waited, stop_requested>>
\* The loop variables but its position.
loopData == <<tick, route_map, outcome, prev_outcome, feed, df, displayed, last_good, had_good,
              in_flight, fetches, published, slept, waited, stop_requested>>
searchVars == <<poi_index, query, topK, results>>
boardingVars == <<resp, candidates, target_routes_list, clock, boarding>>
vars == <<staticVars, reconcileVars, normVars, loopVars, searchVars, boardingVars>>
\* What the polling loop and get_live_vehicles never touch.
notLoopVars == <<staticVars, reconcileVars, normVars, searchVars, boardingVars>>

-----------------------------------------------------------------------------
(* Python strings and dictionaries *)

\* The literal "HSL:" of .replace("HSL:", "").
HSL_PREFIX == <<"H", "S", "L", ":">>

\* s[a:] of Python, 1-based: the suffix of s from position a.
Suffix(s, a) == SubSeq(s, a, Len(s))

\* s.startswith(p)
StartsWith(s, p) == Len(s) >= Len(p) /\ SubSeq(s, 1, Len(p)) = p

\* s.replace(old, "") for a non-empty old: every non-overlapping occurrence of
\* old, found left to right in one pass, is removed.
RECURSIVE StrReplace(_, _)
StrReplace(s, old) ==
    IF Len(s) < Len(old) THEN s
    ELSE IF StartsWith(s, old) THEN StrReplace(Suffix(s, Len(old) + 1), old)
    ELSE <<Head(s)>> \o StrReplace(Tail(s), old)

\* `sub in s` of Python strings: sub occurs in s as a contiguous substring
\* (the empty string occurs in every string).
StrContains(sub, s) ==
    \E i \in 1..(Len(s) - Len(sub) + 1) : SubSeq(s, i, i + Len(sub) - 1) = sub

\* The normalisation the code applies to an id: x.replace("HSL:", "").
ReplaceHSL(s) == StrReplace(s, HSL_PREFIX)

\* d[k] = v on a dict held as a function.
\* d.setdefault(k, v): a key already present keeps its value.
DictPutKeepFirst(d, k, v) ==
    [x \in (DOMAIN d) \cup {k} |-> IF x \in DOMAIN d THEN d[x] ELSE v]

DictPut(d, k, v) == [x \in (DOMAIN d) \cup {k} |-> IF x = k THEN v ELSE d[x]]

\* {} : the empty dict.
EmptyDict == <<>>

\* A float NaN cell of a pandas frame read with dtype=str (an empty cell), in a
\* column of ids (NaNId) and in a column of plain strings (NaNCell).
NaNId == <<"<NaN>">>
NaNCell == "<NaN>"

\* str(x) of a cell: str(float('nan')) is 'nan'.
PyStr(c) == IF c = NaNCell THEN "nan" ELSE c

-----------------------------------------------------------------------------
(* etl_static.py: load_static_lookups *)

MODE_MAP ==
    [c \in {"0", "900", "1", "401", "3", "700", "4", "1000", "109", "100"} |->
        CASE c \in {"0", "900"}   -> "TRAM"
          [] c \in {"1", "401"}   -> "METRO"
          [] c \in {"3", "700"}   -> "BUS"
          [] c \in {"4", "1000"}  -> "FERRY"
          [] c \in {"109", "100"} -> "TRAIN"]

\* MODE_MAP.get(r_type_code, 'BUS')
ModeGetBadDefault(code) == IF code \in DOMAIN MODE_MAP THEN MODE_MAP[code] ELSE code
ModeGet(code) == IF code \in DOMAIN MODE_MAP THEN MODE_MAP[code] ELSE "BUS"

\* str(row.get('route_type', '3')): the cell, or '3' when the table has no such column.
RouteTypeCode(row, cols) ==
    IF "route_type" \in cols THEN PyStr(row.route_type) ELSE "3"

RouteCols == {"route_id", "route_type", "route_short_name", "route_long_name"}
TripCols == {"trip_id", "route_id", "direction_id", "trip_headsign"}

\* The body of the routes loop raises on this row: KeyError for a column the
\* table lacks, AttributeError for .replace on a NaN route_id.
RouteRowRaises(row, cols) ==
    \/ "route_id" \notin cols
    \/ row.route_id = NaNId
    \/ "route_short_name" \notin cols
    \/ "route_long_name" \notin cols

\* The record stored for one route row.
RouteRecord(row, cols) ==
    [short |-> row.route_short_name,
     long  |-> row.route_long_name,
     mode  |-> ModeGet(RouteTypeCode(row, cols))]

\* for _, row in routes.iterrows(): ... routes_dict[r_id] = {...}
RECURSIVE RoutesLoop(_, _, _)
RoutesLoop(rows, cols, d) ==
    IF rows = <<>> THEN [ok |-> TRUE, d |-> d]
    ELSE IF RouteRowRaises(Head(rows), cols) THEN [ok |-> FALSE, d |-> d]
    ELSE RoutesLoop(Tail(rows), cols,
                    DictPut(d, ReplaceHSL(Head(rows).route_id),
                            RouteRecord(Head(rows), cols)))

\* The first try block: read_csv raises on a missing or unparseable file; any
\* exception leaves routes_dict = {}.
LoadRoutes(t) ==
    IF t.file # "ok" THEN EmptyDict
    ELSE LET r == RoutesLoop(t.rows, t.columns, EmptyDict)
         IN  IF r.ok THEN r.d ELSE EmptyDict

\* The body of the trips loop raises on this row.
TripRowRaises(row, cols) ==
    \/ TripCols \ cols # {}
    \/ row.trip_id = NaNId
    \/ row.route_id = NaNId

\* for _, row in trips.iterrows(): trip_lookup[t_id] = headsign;
\* direction_lookup[(r_id, d_id)] = headsign
RECURSIVE TripsLoop(_, _, _, _)
TripsLoop(rows, cols, tl, dl) ==
    IF rows = <<>> THEN [ok |-> TRUE, trip |-> tl, dir |-> dl]
    ELSE IF TripRowRaises(Head(rows), cols) THEN [ok |-> FALSE, trip |-> tl, dir |-> dl]
    ELSE LET row == Head(rows)
             t_id == ReplaceHSL(row.trip_id)
             r_id == ReplaceHSL(row.route_id)
         IN  TripsLoop(Tail(rows), cols,
                       DictPut(tl, t_id, row.trip_headsign),
                       DictPut(dl, <<r_id, row.direction_id>>, row.trip_headsign))

\* The second try block: any exception leaves both trip maps empty.
LoadTrips(t) ==
    IF t.file # "ok" THEN [trip |-> EmptyDict, dir |-> EmptyDict]
    ELSE LET r == TripsLoop(t.rows, t.columns, EmptyDict, EmptyDict)
         IN  IF r.ok THEN [trip |-> r.trip, dir |-> r.dir]
             ELSE [trip |-> EmptyDict, dir |-> EmptyDict]

\* The encodings of sys.stdout: UTF-8, and ascii for every encoding that has
\* neither U+1F4C2 nor U+274C (ascii, cp1252, latin-1).
StdoutEncodings == {"utf-8", "ascii"}

\* The messages printed at lines 7, 34, 36, 53 and 55; those of lines 7, 36 and
\* 55 carry a character outside ASCII.
NonAsciiMessages == {"banner", "routes_error", "trips_error"}

\* print(msg) raises UnicodeEncodeError when sys.stdout cannot encode msg.
PrintRaises(enc, msg) == enc # "utf-8" /\ msg \in NonAsciiMessages

\* The first, and the second, try block ends in its except handler.
RoutesHandlerRuns(t) ==
    t.file # "ok" \/ ~ RoutesLoop(t.rows, t.columns, EmptyDict).ok
TripsHandlerRuns(t) ==
    t.file # "ok" \/ ~ TripsLoop(t.rows, t.columns, EmptyDict, EmptyDict).ok

\* Lines 6-59.  The print of line 7 is outside both try blocks and the prints
\* of lines 36 and 55 are inside the except handlers: an exception of any of
\* them leaves the function, and nothing is returned.  Otherwise
\* return routes_dict, trip_lookup, direction_lookup.
load_static_lookups(rt, tt, enc) ==
    IF \/ PrintRaises(enc, "banner")
       \/ RoutesHandlerRuns(rt) /\ PrintRaises(enc, "routes_error")
       \/ TripsHandlerRuns(tt) /\ PrintRaises(enc, "trips_error")
    THEN [raised |-> TRUE, value |-> <<>>]
    ELSE [raised |-> FALSE,
          value |-> <<LoadRoutes(rt), LoadTrips(tt).trip, LoadTrips(tt).dir>>]

\* One call of load_static_lookups() on the files found under GTFS_PATH: the
\* three maps are assigned when it returns, and the caller is left with the
\* exception when it raises.
LoadStaticLookups ==
    /\ pc = "start"
    /\ LET r == load_static_lookups(routesTable, tripsTable, stdout_encoding)
       IN  IF r.raised
           THEN /\ pc' = "load_raised"
                /\ UNCHANGED <<routes_dict, trip_lookup, direction_lookup>>
           ELSE /\ routes_dict' = r.value[1]
                /\ trip_lookup' = r.value[2]
                /\ direction_lookup' = r.value[3]
                /\ pc' = "loaded"
    /\ UNCHANGED <<routesTable, tripsTable, stdout_encoding>>

-----------------------------------------------------------------------------
(* app.py: get_route_color, get_live_vehicles *)

\* palette.get(str(route_short_name), [0, 223, 216])
get_route_color(route_short_name) ==
    CASE route_short_name = "1"  -> <<255, 87, 34>>
      [] route_short_name = "2"  -> <<76, 175, 80>>
      [] route_short_name = "3"  -> <<33, 150, 243>>
      [] route_short_name = "4"  -> <<255, 193, 7>>
      [] route_short_name = "5"  -> <<156, 39, 176>>
      [] route_short_name = "6"  -> <<233, 30, 99>>
      [] route_short_name = "7"  -> <<0, 188, 212>>
      [] route_short_name = "8"  -> <<63, 81, 181>>
      [] route_short_name = "9"  -> <<205, 220, 57>>
      [] route_short_name = "10" -> <<121, 85, 72>>
      [] OTHER -> <<0, 223, 216>>

\* d[k] = v on an insertion-ordered dict held as a sequence of <<key, value>>:
\* an existing key keeps its place and takes the new value.
OrderedPut(d, k, v) ==
    IF \E i \in 1..Len(d) : d[i][1] = k
    THEN [i \in 1..Len(d) |-> IF d[i][1] = k THEN <<k, v>> ELSE d[i]]
    ELSE Append(d, <<k, v>>)

\* targets_clean = {rid.replace("HSL:", ""): name for rid, name in route_id_map.items()}
RECURSIVE TargetsCleanFrom(_, _)
TargetsCleanFrom(items, acc) ==
    IF items = <<>> THEN acc
    ELSE TargetsCleanFrom(Tail(items),
                          OrderedPut(acc, ReplaceHSL(Head(items)[1]), Head(items)[2]))

TargetsClean(route_id_map) == TargetsCleanFrom(route_id_map, <<>>)

\* The inner loop: the short name of the first target whose cleaned id occurs
\* in raw_route_id, as <<name>>, or <<>> for None.
RECURSIVE FirstMatch(_, _)
FirstMatch(raw_route_id, targets) ==
    IF targets = <<>> THEN <<>>
    ELSE IF StrContains(Head(targets)[1], raw_route_id) THEN <<Head(targets)[2]>>
    ELSE FirstMatch(raw_route_id, Tail(targets))

\* matched_name after lines 256-261: None unless raw_route_id is non-empty.
MatchedName(raw_route_id, targets) ==
    IF raw_route_id # <<>> THEN FirstMatch(raw_route_id, targets) ELSE <<>>

\* `if matched_name:` - neither None nor the empty string.
Truthy(m) == m # <<>> /\ m[1] # ""

\* The dict appended for a matched entity. An unset position reads as the
\* protobuf defaults, which the entity carries in lat and lon.
VehicleRow(e, name) ==
    [lat |-> e.lat, lon |-> e.lon, id |-> e.label,
     route_name |-> name, color |-> get_route_color(name)]

\* for entity in feed.entity: if entity.HasField('vehicle'): ...
RECURSIVE DecodeLoop(_, _, _)
DecodeLoop(entities, targets, vehicles) ==
    IF entities = <<>> THEN vehicles
    ELSE LET e == Head(entities)
             m == MatchedName(e.route_id, targets)
         IN  DecodeLoop(Tail(entities), targets,
                        IF e.has_vehicle /\ Truthy(m)
                        THEN Append(vehicles, VehicleRow(e, m[1]))
                        ELSE vehicles)

\* Lines 249-271: the frame built from a parsed feed.
DecodeVehicles(fd, route_id_map) == DecodeLoop(fd, TargetsClean(route_id_map), <<>>)

\* pd.DataFrame()
EmptyFrame == <<>>

\* get_live_vehicles(route_id_map): o is how the fetch and parse of lines
\* 244-247 ended, fd what the FeedMessage then holds.
GetLiveVehicles(o, fd, route_id_map) ==
    IF o # "ok" THEN EmptyFrame ELSE DecodeVehicles(fd, route_id_map)

FetchOutcomes == {"ok", "timeout", "error", "parse_error"}

-----------------------------------------------------------------------------
(* Inputs of get_live_vehicles: feeds and route maps *)

MaxEntities == 2
MaxLoopEntities == 2

\* Sequences over S of length at most n.
SeqsUpTo(S, n) == UNION {[1..k -> S] : k \in 0..n}

H(x) == HSL_PREFIX \o x
R1 == <<"1">>
R14 == <<"1", "4">>
R2 == <<"2">>

\* A FeedEntity without a vehicle (an alert or a trip update).
NoVehicleEntity ==
    [has_vehicle |-> FALSE, has_position |-> FALSE, route_id |-> <<>>,
     lat |-> 0, lon |-> 0, label |-> ""]

\* A FeedEntity with a VehiclePosition whose trip names route rid; without a
\* position its latitude and longitude read as the protobuf default 0.0.
VehicleEntity(has_pos, rid) ==
    [has_vehicle |-> TRUE, has_position |-> has_pos, route_id |-> rid,
     lat |-> IF has_pos THEN 60 ELSE 0, lon |-> IF has_pos THEN 24 ELSE 0,
     label |-> ""]

\* v.vehicle.label of the entities of one feed, by position.
VehicleLabels == <<"v1", "v2", "v3", "v4">>

Labelled(es) ==
    [i \in 1..Len(es) |->
        IF es[i].has_vehicle THEN [es[i] EXCEPT !.label = VehicleLabels[i]] ELSE es[i]]

FeedRouteIds == {H(R1), H(R14), R14, H(R2), <<>>}

FeedEntities ==
    {NoVehicleEntity} \cup {VehicleEntity(b, r) : b \in BOOLEAN, r \in FeedRouteIds}

Feeds == {Labelled(es) : es \in SeqsUpTo(FeedEntities, MaxEntities)}

\* st.session_state['route_map'] as built by resolve_route_ids: gtfsId -> shortName,
\* in insertion order.
RouteMaps ==
    { <<>>,
      << <<H(R1), "4">> >>,
      << <<H(R14), "7">> >>,
      << <<H(R1), "4">>, <<H(R14), "7">> >>,
      << <<H(R14), "7">>, <<H(R1), "4">> >> }

LoopEntities ==
    {NoVehicleEntity, VehicleEntity(TRUE, H(R1)), VehicleEntity(FALSE, H(R1)),
     VehicleEntity(TRUE, H(R2))}

LoopFeeds == {Labelled(es) : es \in SeqsUpTo(LoopEntities, MaxLoopEntities)}

\* The route map of the session while the loop runs.
LoopRouteMaps == { << <<H(R1), "4">> >> }

\* What the FeedMessage can hold when lines 244-246 end with outcome o: the
\* parsed payload on success, nothing when the request raised, and any part of
\* a payload when ParseFromString raised.
FeedAfter(o, F) == IF o \in {"ok", "parse_error"} THEN F ELSE {<<>>}

-----------------------------------------------------------------------------
(* app.py: the polling loop, lines 388-440 *)

NumTicks == 100
\* Line 440: the argument of time.sleep.
SleepSeconds == 2
\* Line 245: the timeout argument of requests.get, in seconds.
FetchTimeout == 5

\* The script reaches `for _ in range(100)` with a tour in the session state.
LoopInit ==
    /\ pc = "tick"
    /\ tick = 0
    /\ route_map \in LoopRouteMaps
    /\ outcome = "none"
    /\ prev_outcome = "none"
    /\ feed = <<>>
    /\ df = EmptyFrame
    /\ displayed = EmptyFrame
    /\ last_good = EmptyFrame
    /\ had_good = FALSE
    /\ in_flight = 0
    /\ fetches = 0
    /\ published = 0
    /\ slept = 0
    /\ waited = 0
    /\ stop_requested = FALSE

\* A stop of the script, or a rerun caused by a widget, is requested while the
\* loop runs.  Streamlit hands the request to the script thread inside its next
\* st.* call, which raises there and ends the run.
RequestStop ==
    /\ pc \in {"tick", "fetching", "render", "sleep"}
    /\ ~ stop_requested
    /\ stop_requested' = TRUE
    /\ UNCHANGED <<pc, tick, route_map, outcome, prev_outcome, feed, df, displayed,
                   last_good, had_good, in_flight, fetches, published, slept, waited,
                   notLoopVars>>

\* Lines 388-412 up to the requests.get of get_live_vehicles: the next
\* iteration starts and the request is sent.  live_container.container() at
\* line 389 is a st.* call: a pending stop ends the run there.
BeginTick ==
    /\ pc = "tick"
    /\ tick < NumTicks
    /\ IF stop_requested
       THEN /\ pc' = "stopped"
            /\ UNCHANGED <<in_flight, fetches>>
       ELSE /\ pc' = "fetching"
            /\ in_flight' = in_flight + 1
            /\ fetches' = fetches + 1
    /\ UNCHANGED <<tick, route_map, outcome, prev_outcome, feed, df, displayed,
                   last_good, had_good, published, slept, waited, stop_requested,
                   notLoopVars>>

\* Line 245, timeout=5: the server has sent nothing for FetchTimeout seconds.
DeadlineExpires ==
    /\ pc = "fetching"
    /\ waited < FetchTimeout
    /\ waited' = FetchTimeout
    /\ UNCHANGED <<pc, tick, route_map, outcome, prev_outcome, feed, df, displayed,
                   last_good, had_good, in_flight, fetches, published, slept, stop_requested, notLoopVars>>

\* How requests.get can end once the server has been silent for w seconds: at
\* the deadline it raises requests.exceptions.Timeout.
OutcomesAfter(w) == IF w >= FetchTimeout THEN {"timeout"} ELSE FetchOutcomes

\* The loop never leaves: `while True` in place of `for _ in range(100)`.
SleepNoExit ==
    /\ pc = "sleep"
    /\ tick' = tick + 1
    /\ pc' = "tick"
    /\ prev_outcome' = outcome
    /\ feed' = <<>>
    /\ slept' = slept + SleepSeconds
    /\ UNCHANGED <<route_map, outcome, df, displayed, last_good, had_good,
                   in_flight, fetches, published, waited, stop_requested, notLoopVars>>

\* The request raises and nothing catches it: the script run ends.
FetchReturnsUncaught ==
    /\ pc = "fetching"
    /\ \E o \in OutcomesAfter(waited) :
         \E fd \in FeedAfter(o, LoopFeeds) :
            /\ outcome' = o
            /\ feed' = fd
            /\ df' = IF o = "ok" THEN DecodeVehicles(fd, route_map) ELSE df
            /\ pc' = IF o = "ok" THEN "render" ELSE "crashed"
    /\ in_flight' = in_flight - 1
    /\ waited' = 0
    /\ UNCHANGED <<tick, route_map, prev_outcome, displayed, last_good, had_good,
                   fetches, published, slept, stop_requested, notLoopVars>>

\* Lines 245-271 and 412: the request returns or raises, the payload is parsed
\* and decoded, and df is assigned.
FetchReturns ==
    /\ pc = "fetching"
    /\ \E o \in OutcomesAfter(waited) :
         \E fd \in FeedAfter(o, LoopFeeds) :
            /\ outcome' = o
            /\ feed' = fd
            /\ df' = GetLiveVehicles(o, fd, route_map)
    /\ pc' = "render"
    /\ in_flight' = in_flight - 1
    /\ waited' = 0
    /\ UNCHANGED <<tick, route_map, prev_outcome, displayed, last_good, had_good,
                   fetches, published, slept, stop_requested, notLoopVars>>

\* The chart is added to what the container shows instead of replacing it.
RenderInPlace ==
    /\ pc = "render"
    /\ IF stop_requested
       THEN /\ pc' = "stopped"
            /\ UNCHANGED <<displayed, last_good, had_good, published>>
       ELSE /\ displayed' = displayed \o df
            /\ last_good' = IF outcome = "ok" THEN df ELSE last_good
            /\ had_good' = (had_good \/ outcome = "ok")
            /\ published' = published + 1
            /\ pc' = "sleep"
    /\ UNCHANGED <<tick, route_map, outcome, prev_outcome, feed, df,
                   in_flight, fetches, slept, waited, stop_requested, notLoopVars>>

\* Lines 413-438: the deck built from df replaces the content of live_container.
\* last_good and had_good record the frame of the latest tick whose fetch
\* succeeded.  st.pydeck_chart at line 438 is a st.* call: a pending stop ends
\* the run there, before the chart is sent.
Render ==
    /\ pc = "render"
    /\ IF stop_requested
       THEN /\ pc' = "stopped"
            /\ UNCHANGED <<displayed, last_good, had_good, published>>
       ELSE /\ displayed' = df
            /\ last_good' = IF outcome = "ok" THEN df ELSE last_good
            /\ had_good' = (had_good \/ outcome = "ok")
            /\ published' = published + 1
            /\ pc' = "sleep"
    /\ UNCHANGED <<tick, route_map, outcome, prev_outcome, feed, df,
                   in_flight, fetches, slept, waited, stop_requested, notLoopVars>>

\* Line 440: time.sleep(2), then the next iteration or the end of range(100).
\* The FeedMessage of the finished call is gone; prev_outcome records how the
\* finished tick's fetch ended.
Sleep ==
    /\ pc = "sleep"
    /\ tick' = tick + 1
    /\ pc' = IF tick + 1 < NumTicks THEN "tick" ELSE "done"
    /\ prev_outcome' = outcome
    /\ feed' = <<>>
    /\ slept' = slept + SleepSeconds
    /\ UNCHANGED <<route_map, outcome, df, displayed, last_good, had_good,
                   in_flight, fetches, published, waited, stop_requested, notLoopVars>>

\* One call get_live_vehicles(route_id_map).
CallGetLiveVehicles ==
    /\ pc = "call"
    /\ df' = GetLiveVehicles(outcome, feed, route_map)
    /\ pc' = "returned"
    /\ UNCHANGED <<tick, route_map, outcome, prev_outcome, feed, displayed,
                   last_good, had_good, in_flight, fetches, published, slept, waited,
                   stop_requested, notLoopVars>>

-----------------------------------------------------------------------------
(* Inputs of load_static_lookups: routes.txt and trips.txt *)

MaxRouteRows == 2
MaxTripRows == 2

\* The route_type cells: every code of MODE_MAP, a code it lacks, and an empty cell.
RouteTypeCells == (DOMAIN MODE_MAP) \cup {"7", NaNCell}

\* route_short_name of the rows, one per raw route_id.
ShortNameOf(rid) ==
    CASE rid = R1 -> "4" [] rid = H(R1) -> "4T" [] rid = R2 -> "7" [] OTHER -> NaNCell

RouteRow(rid, type) ==
    [route_id |-> rid, route_type |-> type,
     route_short_name |-> ShortNameOf(rid), route_long_name |-> "Line"]

RouteRows == {RouteRow(rid, ty) : rid \in {R1, H(R1), R2, NaNId}, ty \in RouteTypeCells}

\* routes.txt without a route_type column: the rows carry no such cell.
RouteRowsNoType == {RouteRow(rid, NaNCell) : rid \in {R1, H(R1), R2, NaNId}}

RoutesTables ==
    {[file |-> f, columns |-> {}, rows |-> <<>>] : f \in {"missing", "unparseable"}}
    \cup {[file |-> "ok", columns |-> RouteCols, rows |-> rs] :
            rs \in SeqsUpTo(RouteRows, MaxRouteRows)}
    \cup {[file |-> "ok", columns |-> RouteCols \ {"route_type"}, rows |-> rs] :
            rs \in SeqsUpTo(RouteRowsNoType, MaxRouteRows)}
    \cup {[file |-> "ok", columns |-> RouteCols \ {"route_long_name"}, rows |-> rs] :
            rs \in SeqsUpTo({RouteRow(R1, "0")}, MaxRouteRows)}

\* A few routes tables to go with every trips table: missing, failing at its
\* second row, and two that load.
FewRoutesTables ==
    { [file |-> "missing", columns |-> {}, rows |-> <<>>],
      [file |-> "ok", columns |-> RouteCols,
       rows |-> <<RouteRow(R1, "0"), RouteRow(NaNId, "3")>>],
      [file |-> "ok", columns |-> RouteCols, rows |-> <<RouteRow(H(R1), "0")>>],
      [file |-> "ok", columns |-> RouteCols,
       rows |-> <<RouteRow(R1, "1"), RouteRow(R2, "109")>>] }

T1 == <<"T">>

TripRow(tid, rid, d, h) ==
    [trip_id |-> tid, route_id |-> rid, direction_id |-> d, trip_headsign |-> h]

Headsigns == {"Westend", "Kamppi"}

TripRows ==
    {TripRow(tid, rid, d, h) : tid \in {T1, H(T1), NaNId}, rid \in {R1, H(R1)},
                               d \in {"0", "1"}, h \in Headsigns}

TripsTables ==
    {[file |-> f, columns |-> {}, rows |-> <<>>] : f \in {"missing", "unparseable"}}
    \cup {[file |-> "ok", columns |-> TripCols, rows |-> rs] :
            rs \in SeqsUpTo(TripRows, MaxTripRows)}
    \cup {[file |-> "ok", columns |-> TripCols \ {"trip_headsign"}, rows |-> rs] :
            rs \in SeqsUpTo({TripRow(T1, R1, "0", NaNCell)}, MaxTripRows)}

FewTripsTables ==
    { [file |-> "missing", columns |-> {}, rows |-> <<>>],
      [file |-> "ok", columns |-> TripCols,
       rows |-> <<TripRow(T1, R1, "0", "Westend"), TripRow(NaNId, R1, "1", "Kamppi")>>],
      [file |-> "ok", columns |-> TripCols,
       rows |-> <<TripRow(H(T1), H(R1), "0", "Westend")>>] }

-----------------------------------------------------------------------------
(* Normalisation of two raw ids *)

MaxIdParts == 3

IdParts == {HSL_PREFIX, <<"1">>, <<" ">>, <<"H", "S">>, <<"L", ":">>}

RECURSIVE Flatten(_)
Flatten(ps) == IF ps = <<>> THEN <<>> ELSE Head(ps) \o Flatten(Tail(ps))

RawIds == {Flatten(ps) : ps \in SeqsUpTo(IdParts, MaxIdParts)}

NormIdle ==
    /\ rawA = <<>>
    /\ rawB = <<>>
    /\ keyA = <<>>
    /\ keyB = <<>>

\* The key load_static_lookups and get_live_vehicles derive from each raw id.
NormalizeIds ==
    /\ pc = "raw"
    /\ keyA' = ReplaceHSL(rawA)
    /\ keyB' = ReplaceHSL(rawB)
    /\ pc' = "keyed"
    /\ UNCHANGED <<rawA, rawB>>

-----------------------------------------------------------------------------
(* Vehicle Reconciler: headsign resolution of one decoded vehicle *)

Space == " "

RECURSIVE LStrip(_)
LStrip(s) == IF s # <<>> /\ Head(s) = Space THEN LStrip(Tail(s)) ELSE s

RECURSIVE RStrip(_)
RStrip(s) ==
    IF s # <<>> /\ s[Len(s)] = Space THEN RStrip(SubSeq(s, 1, Len(s) - 1)) ELSE s

\* Surrounding whitespace removed.
Trim(s) == LStrip(RStrip(s))

\* One leading "HSL:" removed.
StripPrefix(s) == IF StartsWith(s, HSL_PREFIX) THEN Suffix(s, Len(HSL_PREFIX) + 1) ELSE s

\* The normal form of an id: the agency prefix stripped and whitespace trimmed.
Normalize(s) == Trim(StripPrefix(Trim(s)))

DecodedVehicles ==
    [route_id : {H(R1), R1, H(R2)}, trip_id : {H(T1), T1, H(<<"U">>)},
     direction_id : {"0", "1"}]

NoVehicle == [route_id |-> <<>>, trip_id |-> <<>>, direction_id |-> "0"]

\* The fallback first: the direction key is tried before the trip id.
ResolveHeadsignDirectionFirst(v, tl, dl) ==
    LET t == Normalize(v.trip_id)
        k == <<Normalize(v.route_id), v.direction_id>>
    IN  IF k \in DOMAIN dl THEN dl[k]
        ELSE IF t \in DOMAIN tl THEN tl[t]
        ELSE "Unknown"

\* Step 3 of Reconcile: trip_id -> headsign, else (route_id, direction_id) ->
\* headsign, else "Unknown".
ResolveHeadsign(v, tl, dl) ==
    LET t == Normalize(v.trip_id)
        k == <<Normalize(v.route_id), v.direction_id>>
    IN  IF t \in DOMAIN tl THEN tl[t]
        ELSE IF k \in DOMAIN dl THEN dl[k]
        ELSE "Unknown"

ReconcileIdle ==
    /\ vehicle = NoVehicle
    /\ resolved_headsign = "none"

\* Reconcile(decoded, index) for one decoded vehicle against the loaded index.
Reconcile ==
    \E v \in DecodedVehicles :
        /\ pc = "loaded"
        /\ vehicle' = v
        /\ resolved_headsign' = ResolveHeadsign(v, trip_lookup, direction_lookup)
        /\ pc' = "reconciled"

-----------------------------------------------------------------------------
(* Semantic Search Engine: FitIndex and Search *)

MaxPois == 3
MaxTopK == 4

Descriptions == {"sauna", "park", "museum"}

\* Embed(text): the embedding provider, here unit vectors, so that the cosine
\* similarity of two embeddings is their dot product.
Embed(text) ==
    CASE text = "sauna"  -> <<1, 0>>
      [] text = "park"   -> <<0, 1>>
      [] text = "museum" -> <<0 - 1, 0>>
      [] OTHER           -> <<0, 1>>

Cosine(a, b) == a[1] * b[1] + a[2] * b[2]

PoiLists == SeqsUpTo(Descriptions, MaxPois)

\* The index FitIndex builds: one entry per POI, in input order.
BuildIndex(pois) ==
    [i \in 1..Len(pois) |-> [id |-> i, description |-> pois[i], embedding |-> Embed(pois[i])]]

\* e put into a list sorted by descending score, after every entry that scores
\* at least as much (a stable sort).
RECURSIVE InsertByScore(_, _)
InsertByScore(e, sorted) ==
    IF sorted = <<>> THEN <<e>>
    ELSE IF Head(sorted).score >= e.score THEN <<Head(sorted)>> \o InsertByScore(e, Tail(sorted))
    ELSE <<e>> \o sorted

RECURSIVE SortByScore(_, _)
SortByScore(entries, sorted) ==
    IF entries = <<>> THEN sorted
    ELSE SortByScore(Tail(entries), InsertByScore(Head(entries), sorted))

Scored(idx, q) ==
    [i \in 1..Len(idx) |-> [poi |-> idx[i], score |-> Cosine(Embed(q), idx[i].embedding)]]

Take(xs, k) == SubSeq(xs, 1, IF k < Len(xs) THEN k ELSE Len(xs))

\* Search that ranks the whole index and does not cut the list at topK.
SearchResultsUncut(idx, q, k) == SortByScore(Scored(idx, q), <<>>)

\* Search(q, k): the k best entries of the index by descending score.
SearchResults(idx, q, k) == Take(SortByScore(Scored(idx, q), <<>>), k)

SearchIdle ==
    /\ poi_index = <<>>
    /\ query = "none"
    /\ topK = 0
    /\ results = <<>>

\* FitIndex(pois): the new index replaces the old one.
FitIndex ==
    \E pois \in PoiLists :
        /\ poi_index' = BuildIndex(pois)
        /\ query' = "none"
        /\ topK' = 0
        /\ results' = <<>>
        /\ UNCHANGED <<staticVars, reconcileVars, normVars, loopVars, boardingVars>>

Search ==
    \E q \in Descriptions \cup {"harbour"}, k \in 1..MaxTopK :
        /\ query' = q
        /\ topK' = k
        /\ results' = SearchResults(poi_index, q, k)
        /\ UNCHANGED <<poi_index, staticVars, reconcileVars, normVars, loopVars, boardingVars>>

-----------------------------------------------------------------------------
(* app.py: get_boarding_info, lines 142-196 *)

\* Line 173: min_wait = 999.
MinWaitInit == 999
\* Line 185: metres walked per minute.
MetresPerMinute == 80
\* Line 182: seconds per minute.
SecondsPerMinute == 60

\* int(a / b) for integers a and b > 0: Python's int() truncates toward zero.
PyIntDiv(a, b) == IF a >= 0 THEN a \div b ELSE -((-a) \div b)

None == <<>>

\* route_name in target_routes_list, for a list.
InList(x, l) == \E i \in 1..Len(l) : l[i] = x

\* Line 182: minutes_away = int(((service_day + arrival_seconds) - time.time()) / 60)
MinutesAway(departure, now) ==
    PyIntDiv((departure.serviceDay + departure.realtimeArrival) - now, SecondsPerMinute)

\* Line 183: 0 <= minutes_away < min_wait
Admits(minutes_away, min_wait) == 0 <= minutes_away /\ minutes_away < min_wait

\* Lines 184-194: the option built from a stop and one of its departures.
BestOption(item, departure, minutes_away) ==
    [stop_name    |-> item.place.name,
     distance     |-> item.distance,
     walk_time    |-> IF PyIntDiv(item.distance, MetresPerMinute) > 1
                      THEN PyIntDiv(item.distance, MetresPerMinute) ELSE 1,
     minutes_away |-> minutes_away,
     lat          |-> item.place.lat,
     lon          |-> item.place.lon,
     route        |-> departure.shortName]

\* Lines 178-194, the body of the inner loop for one departure.  st holds
\* best_option, min_wait, how many times time.time() was read, and whether an
\* exception was raised: adding None to service_day raises TypeError when
\* realtimeArrival is null, before the clock is read.  Each departure of an
\* asked-for route reads the clock anew (line 182).
DepartureStep(st, item, departure, targets, readings) ==
    IF st.raised \/ ~ InList(departure.shortName, targets) THEN st
    ELSE IF departure.arrival_null THEN [st EXCEPT !.raised = TRUE]
    ELSE LET minutes_away == MinutesAway(departure, readings[st.reads + 1])
         IN  IF Admits(minutes_away, st.min_wait)
             THEN [best_option |-> <<BestOption(item, departure, minutes_away)>>,
                   min_wait |-> minutes_away, reads |-> st.reads + 1, raised |-> FALSE]
             ELSE [st EXCEPT !.reads = st.reads + 1]

\* Line 177: for departure in stop['stoptimesWithoutPatterns']
RECURSIVE DeparturesLoop(_, _, _, _, _)
DeparturesLoop(st, item, departures, targets, readings) ==
    IF departures = <<>> THEN st
    ELSE DeparturesLoop(DepartureStep(st, item, Head(departures), targets, readings),
                        item, Tail(departures), targets, readings)

\* Line 174: for item in candidates
RECURSIVE CandidatesLoop(_, _, _, _)
CandidatesLoop(st, items, targets, readings) ==
    IF items = <<>> THEN st
    ELSE CandidatesLoop(
            DeparturesLoop(st, Head(items), Head(items).place.stoptimesWithoutPatterns,
                           targets, readings),
            Tail(items), targets, readings)

\* Lines 168-196: requests.post or resp.json() raising, and any exception of
\* the loops, end in `except: return None`; otherwise best_option is returned.
\* readings are the values time.time() returns, in the order of its calls.
get_boarding_info(r, items, targets, readings) ==
    IF r # "ok" THEN None
    ELSE LET st == CandidatesLoop([best_option |-> None, min_wait |-> MinWaitInit,
                                   reads |-> 0, raised |-> FALSE],
                                  items, targets, readings)
         IN  IF st.raised THEN None ELSE st.best_option

(* Inputs of get_boarding_info *)

\* The most departures one response carries, over all its stops.
MaxDepartures == 3

\* The first reading of time.time() and the service day of the departures, in
\* seconds: the call is made one hour into the service day.
ServiceDay == 86400
Now == 90000

\* The seconds that pass between two readings of time.time().
ClockSteps == {0, 31}

\* The sequences of n readings of the clock that start at t.
RECURSIVE ReadingsFrom(_, _)
ReadingsFrom(t, n) ==
    IF n = 0 THEN {<<>>}
    ELSE {<<t>> \o r : r \in UNION {ReadingsFrom(t + d, n - 1) : d \in ClockSteps}}

\* The number of departures a response carries: the clock is read at most
\* once for each.
RECURSIVE NumDepartures(_)
NumDepartures(items) ==
    IF items = <<>> THEN 0
    ELSE Len(Head(items).place.stoptimesWithoutPatterns) + NumDepartures(Tail(items))

\* realtimeArrival, seconds into the service day: 90 s ago, 30 s ago, in 90 s,
\* in 150 s, and in 999.5 minutes.
Arrivals == {3510, 3570, 3690, 3750, 63570}

Departure(name, null, arrival) ==
    [shortName |-> name, arrival_null |-> null, serviceDay |-> ServiceDay,
     realtimeArrival |-> arrival]

\* Departures of the routes "4" and "9"; one of each with a null realtimeArrival.
Departures ==
    {Departure("4", FALSE, a) : a \in Arrivals}
    \cup {Departure("9", FALSE, 3690), Departure("4", TRUE, 0), Departure("9", TRUE, 0)}

\* The k-th nearest stop: the edges come nearest first.
StopNames == <<"S1", "S2", "S3", "S4", "S5">>
Edge(k, departures) ==
    [place    |-> [name |-> StopNames[k], lat |-> 60 + k, lon |-> 24 + k,
                   stoptimesWithoutPatterns |-> departures],
     distance |-> 160 * k - 120]

\* The edges of a response, from its departures in order, each marked with
\* whether it is the first of the next stop.
RECURSIVE Edges(_, _)
Edges(marked, acc) ==
    IF marked = <<>> THEN acc
    ELSE LET m == Head(marked)
             n == Len(acc)
         IN  IF n = 0 \/ m[1]
             THEN Edges(Tail(marked), Append(acc, Edge(n + 1, <<m[2]>>)))
             ELSE Edges(Tail(marked),
                        [acc EXCEPT ![n] =
                            Edge(n, acc[n].place.stoptimesWithoutPatterns \o <<m[2]>>)])

Responses == {Edges(marked, <<>>) : marked \in SeqsUpTo(BOOLEAN \X Departures, MaxDepartures)}

TargetLists == {<<"4">>, <<"9", "4">>}

\* How requests.post and resp.json() end.
PostOutcomes == {"ok", "error", "not_json"}

BoardingIdle ==
    /\ resp = "none"
    /\ candidates = <<>>
    /\ target_routes_list = <<>>
    /\ clock = <<>>
    /\ boarding = None

\* Line 376: boarding = get_boarding_info(user_lat, user_lon, route_list)
CallGetBoardingInfo ==
    /\ pc = "boarding"
    /\ boarding' = get_boarding_info(resp, candidates, target_routes_list, clock)
    /\ pc' = "boarded"
    /\ UNCHANGED <<resp, candidates, target_routes_list, clock, staticVars, reconcileVars,
                   normVars, searchVars, loopData>>

-----------------------------------------------------------------------------
(* Specifications *)

\* The tables before the load and the maps before they are built.
NoTable == [file |-> "missing", columns |-> {}, rows |-> <<>>]

StaticIdle ==
    /\ routesTable = NoTable
    /\ tripsTable = NoTable
    /\ stdout_encoding = "utf-8"
    /\ routes_dict = EmptyDict
    /\ trip_lookup = EmptyDict
    /\ direction_lookup = EmptyDict

\* The polling loop of app.py.
Init == StaticIdle /\ ReconcileIdle /\ NormIdle /\ SearchIdle /\ BoardingIdle /\ LoopInit
Next == BeginTick \/ DeadlineExpires \/ FetchReturns \/ Render \/ Sleep
Spec == Init /\ [][Next]_vars

\* The polling loop of app.py when the script can be stopped or rerun.
NextStop == RequestStop \/ BeginTick \/ DeadlineExpires \/ FetchReturns \/ Render \/ Sleep
SpecStop == Init /\ [][NextStop]_vars

\* get_live_vehicles on every feed, route map and outcome of the fetch.
InitDecode ==
    /\ StaticIdle /\ ReconcileIdle /\ NormIdle /\ SearchIdle /\ BoardingIdle
    /\ pc = "call"
    /\ tick = 0
    /\ route_map \in RouteMaps
    /\ outcome \in FetchOutcomes
    /\ prev_outcome = "none"
    /\ feed \in FeedAfter(outcome, Feeds)
    /\ df = EmptyFrame
    /\ displayed = EmptyFrame
    /\ last_good = EmptyFrame
    /\ had_good = FALSE
    /\ in_flight = 0
    /\ fetches = 0
    /\ published = 0
    /\ slept = 0
    /\ waited = 0
    /\ stop_requested = FALSE
NextDecode == CallGetLiveVehicles
SpecDecode == InitDecode /\ [][NextDecode]_vars

\* The loop variables outside the loop, at position p.
LoopAt(p) ==
    /\ pc = p
    /\ tick = 0
    /\ route_map = <<>>
    /\ outcome = "none"
    /\ prev_outcome = "none"
    /\ feed = <<>>
    /\ df = EmptyFrame
    /\ displayed = EmptyFrame
    /\ last_good = EmptyFrame
    /\ had_good = FALSE
    /\ in_flight = 0
    /\ fetches = 0
    /\ published = 0
    /\ slept = 0
    /\ waited = 0
    /\ stop_requested = FALSE

\* load_static_lookups on every routes table.
InitRoutes ==
    /\ routesTable \in RoutesTables
    /\ tripsTable \in FewTripsTables
    /\ stdout_encoding \in StdoutEncodings
    /\ routes_dict = EmptyDict
    /\ trip_lookup = EmptyDict
    /\ direction_lookup = EmptyDict
    /\ ReconcileIdle /\ NormIdle /\ SearchIdle /\ BoardingIdle /\ LoopAt("start")
NextRoutes ==
    LoadStaticLookups /\ UNCHANGED <<reconcileVars, normVars, searchVars, boardingVars, loopData>>
SpecRoutes == InitRoutes /\ [][NextRoutes]_vars

\* load_static_lookups on every trips table, and the headsigns resolved from
\* the maps it returns.
InitTrips ==
    /\ routesTable \in FewRoutesTables
    /\ tripsTable \in TripsTables
    /\ stdout_encoding \in StdoutEncodings
    /\ routes_dict = EmptyDict
    /\ trip_lookup = EmptyDict
    /\ direction_lookup = EmptyDict
    /\ ReconcileIdle /\ NormIdle /\ SearchIdle /\ BoardingIdle /\ LoopAt("start")
LoadTripsStep ==
    LoadStaticLookups /\ UNCHANGED <<reconcileVars, normVars, searchVars, boardingVars, loopData>>
ReconcileStep ==
    Reconcile /\ UNCHANGED <<staticVars, normVars, searchVars, boardingVars, loopData>>
NextTrips == LoadTripsStep \/ ReconcileStep
SpecTrips == InitTrips /\ [][NextTrips]_vars

\* Tables that load and whose rows repeat keys: route ids and trip ids with
\* and without the prefix, both directions, both headsigns.
DupRouteRows == {RouteRow(rid, ty) : rid \in {R1, H(R1)}, ty \in {"0", "1"}}
DupTripRows ==
    {TripRow(tid, rid, d, h) : tid \in {T1, H(T1)}, rid \in {R1, H(R1)},
                               d \in {"0", "1"}, h \in Headsigns}
DupRoutesTable == [file |-> "ok", columns |-> RouteCols,
                   rows |-> <<RouteRow(R1, "0"), RouteRow(H(R1), "1")>>]
DupTripsTable == [file |-> "ok", columns |-> TripCols,
                  rows |-> <<TripRow(T1, R1, "0", "Westend"),
                             TripRow(H(T1), H(R1), "0", "Kamppi")>>]

\* load_static_lookups on tables with repeated keys: every such routes table
\* with one trips table, and every such trips table with one routes table.
InitDup ==
    /\ \/ /\ routesTable \in {[file |-> "ok", columns |-> RouteCols, rows |-> rs] :
                                rs \in SeqsUpTo(DupRouteRows, MaxRouteRows)}
          /\ tripsTable = DupTripsTable
       \/ /\ routesTable = DupRoutesTable
          /\ tripsTable \in {[file |-> "ok", columns |-> TripCols, rows |-> rs] :
                               rs \in SeqsUpTo(DupTripRows, MaxTripRows)}
    /\ stdout_encoding \in StdoutEncodings
    /\ routes_dict = EmptyDict
    /\ trip_lookup = EmptyDict
    /\ direction_lookup = EmptyDict
    /\ ReconcileIdle /\ NormIdle /\ SearchIdle /\ BoardingIdle /\ LoopAt("start")
NextDup ==
    LoadStaticLookups /\ UNCHANGED <<reconcileVars, normVars, searchVars, boardingVars, loopData>>
SpecDup == InitDup /\ [][NextDup]_vars

\* The normalisation of every pair of raw ids.
InitNorm ==
    /\ StaticIdle /\ ReconcileIdle /\ SearchIdle /\ BoardingIdle /\ LoopAt("raw")
    /\ rawA \in RawIds
    /\ rawB \in RawIds
    /\ keyA = <<>>
    /\ keyB = <<>>
NextNorm ==
    NormalizeIds /\ UNCHANGED <<staticVars, reconcileVars, searchVars, boardingVars, loopData>>
SpecNorm == InitNorm /\ [][NextNorm]_vars

\* get_boarding_info on every response, list of routes and run of the clock; a
\* failed request carries no edges.
InitBoarding ==
    /\ StaticIdle /\ ReconcileIdle /\ NormIdle /\ SearchIdle /\ LoopAt("boarding")
    /\ target_routes_list \in TargetLists
    /\ \/ resp = "ok" /\ candidates \in Responses
       \/ resp \in PostOutcomes \ {"ok"} /\ candidates = <<>>
    /\ clock \in ReadingsFrom(Now, NumDepartures(candidates))
    /\ boarding = None
NextBoarding == CallGetBoardingInfo
SpecBoarding == InitBoarding /\ [][NextBoarding]_vars

\* The search index.
InitSearch == StaticIdle /\ ReconcileIdle /\ NormIdle /\ SearchIdle /\ BoardingIdle /\ LoopAt("idle")
NextSearch == FitIndex \/ Search
SpecSearch == InitSearch /\ [][NextSearch]_vars

-----------------------------------------------------------------------------
(* Properties of the polling loop (Spec) *)

Failed(o) == o \in FetchOutcomes \ {"ok"}

\* C1, as claimed: when a tick's fetch times out or errors, or its payload
\* fails to parse, the snapshot shown for that tick is the snapshot of the most
\* recent tick whose fetch succeeded.
C1_FailedTickKeepsPrevious ==
    (pc = "sleep" /\ Failed(outcome) /\ had_good) => displayed = last_good

\* C2: the snapshot a consumer can observe is always the complete frame of one
\* tick: while a tick is fetching, decoding or waiting to be rendered it is
\* the whole frame of the tick before (empty if that tick failed or there was
\* none), and once the tick is rendered it is the whole frame decoded from
\* that tick's feed; never a mixture of the two.
C2_SnapshotIsWhole ==
    IF pc = "sleep"
    THEN displayed = GetLiveVehicles(outcome, feed, route_map)
    ELSE displayed = (IF prev_outcome = "ok" THEN last_good ELSE EmptyFrame)

\* The frame of the new tick is decoded and differs from the frame of the
\* tick before, which is still what the container shows.
C2_Witness ==
    /\ pc = "render"
    /\ Len(df) >= 2
    /\ Len(displayed) >= 2
    /\ df # displayed
    /\ displayed = last_good

\* C9: a failed fetch or parse never ends the loop - the loop is at one of
\* its steps until it has run all its ticks - and a tick that follows a failed
\* tick shows the vehicles of its own feed when its fetch succeeds.
C9_FailureIsolated ==
    /\ pc \in {"tick", "fetching", "render", "sleep", "done"}
    /\ pc = "done" => tick = NumTicks
    /\ (pc = "sleep" /\ Failed(prev_outcome) /\ outcome = "ok")
          => displayed = DecodeVehicles(feed, route_map)

\* A tick that follows a timed-out tick has shown the vehicles of its feed.
C9_Witness ==
    /\ pc = "sleep"
    /\ prev_outcome = "timeout"
    /\ outcome = "ok"
    /\ displayed # EmptyFrame
    /\ displayed = DecodeVehicles(feed, route_map)

-----------------------------------------------------------------------------
(* Properties of get_live_vehicles (SpecDecode) *)

\* The entities of the feed that the frame's row j can come from.
SourcesOf(j) == {i \in 1..Len(feed) : feed[i].has_vehicle /\ feed[i].label = df[j].id}

\* C5, as claimed: a vehicle is given a route's label only if its route_id,
\* normalised, equals that route's normalised id; a vehicle whose normalised
\* route_id equals no target's is in no row of the frame.
C5_JoinOnEqualIds ==
    pc = "returned" =>
        \A j \in 1..Len(df) :
            \E i \in SourcesOf(j) :
                \E t \in 1..Len(route_map) :
                    /\ Normalize(feed[i].route_id) = Normalize(route_map[t][1])
                    /\ df[j].route_name = route_map[t][2]

\* C6, as claimed: no entity that has a vehicle but no position is in the
\* frame, and a feed none of whose entities is admitted gives the empty frame.
C6_OnlyPositionedVehicles ==
    pc = "returned" =>
        /\ \A i \in 1..Len(feed) :
              (feed[i].has_vehicle /\ ~feed[i].has_position)
                  => ~ \E j \in 1..Len(df) : df[j].id = feed[i].label
        /\ (\A i \in 1..Len(feed) : ~(feed[i].has_vehicle /\ feed[i].has_position))
              => df = EmptyFrame

-----------------------------------------------------------------------------
(* Properties of the id normalisation (SpecNorm) *)

\* C7, as claimed: two raw ids get the same key exactly when they are equal
\* after one leading "HSL:" and the surrounding whitespace are removed.
C7_SameKeyIffSameNormalForm ==
    pc = "keyed" => ((keyA = keyB) <=> (Normalize(rawA) = Normalize(rawB)))

-----------------------------------------------------------------------------
(* Properties of load_static_lookups (SpecRoutes, SpecTrips) *)

Modes == {"TRAM", "METRO", "BUS", "FERRY", "TRAIN"}

\* The table is missing or malformed: it cannot be read, or one of its rows
\* makes the loop raise.
RoutesTableFails(t) ==
    t.file # "ok" \/ \E i \in 1..Len(t.rows) : RouteRowRaises(t.rows[i], t.columns)

TripsTableFails(t) ==
    t.file # "ok" \/ \E i \in 1..Len(t.rows) : TripRowRaises(t.rows[i], t.columns)

\* The last row of the routes table whose normalised route_id is k.
LastRouteRow(k) ==
    LET is == {i \in 1..Len(routesTable.rows) : ReplaceHSL(routesTable.rows[i].route_id) = k}
    IN  routesTable.rows[CHOOSE i \in is : \A j \in is : j <= i]

\* C8: the mode stored for a route is the one MODE_MAP gives for the
\* route_type code of its row, and BUS when the code is not in the table or
\* the table has no route_type; so it is always one of the five modes.
C8_ModeMappingTotal ==
    pc = "loaded" =>
        \A k \in DOMAIN routes_dict :
            LET row == LastRouteRow(k)
                code == IF "route_type" \in routesTable.columns
                        THEN PyStr(row.route_type) ELSE "absent"
            IN  /\ routes_dict[k].mode \in Modes
                /\ code \in DOMAIN MODE_MAP => routes_dict[k].mode = MODE_MAP[code]
                /\ code \notin DOMAIN MODE_MAP => routes_dict[k].mode = "BUS"

\* Two routes are loaded, one with a code MODE_MAP has and one with a code
\* it lacks.
C8_Witness ==
    /\ pc = "loaded"
    /\ routesTable.columns = RouteCols
    /\ \E k \in DOMAIN routes_dict :
          LastRouteRow(k).route_type = "7" /\ routes_dict[k].mode = "BUS"
    /\ \E k \in DOMAIN routes_dict :
          LastRouteRow(k).route_type = "109" /\ routes_dict[k].mode = "TRAIN"

\* C4, as claimed: load_static_lookups never fails.  The call never ends in
\* an exception; a routes table that is missing or malformed gives an empty
\* routes map, a trips table that is missing or malformed gives an empty trip
\* map and an empty direction map, and each table that loads gives the keys of
\* all its rows whatever happened to the other table.
C4_LoadNeverFails ==
    /\ pc # "load_raised"
    /\ pc = "loaded" =>
        /\ RoutesTableFails(routesTable) => DOMAIN routes_dict = {}
        /\ TripsTableFails(tripsTable) =>
              DOMAIN trip_lookup = {} /\ DOMAIN direction_lookup = {}
        /\ ~RoutesTableFails(routesTable) =>
              DOMAIN routes_dict =
                  {ReplaceHSL(routesTable.rows[i].route_id) : i \in 1..Len(routesTable.rows)}
        /\ ~TripsTableFails(tripsTable) =>
              /\ DOMAIN trip_lookup =
                    {ReplaceHSL(tripsTable.rows[i].trip_id) : i \in 1..Len(tripsTable.rows)}
              /\ DOMAIN direction_lookup =
                    {<<ReplaceHSL(tripsTable.rows[i].route_id), tripsTable.rows[i].direction_id>> :
                        i \in 1..Len(tripsTable.rows)}


-----------------------------------------------------------------------------
(* Properties of the headsign resolution (SpecTrips) *)

\* C3: the resolved headsign is the trip map's entry for the normalised
\* trip_id when there is one, otherwise the direction map's entry for
\* (route_id, direction_id) when there is one, otherwise "Unknown"; it is
\* always a headsign string.
C3_HeadsignResolutionOrder ==
    resolved_headsign # "none" =>
        LET t == Normalize(vehicle.trip_id)
            k == <<Normalize(vehicle.route_id), vehicle.direction_id>>
        IN  /\ t \in DOMAIN trip_lookup => resolved_headsign = trip_lookup[t]
            /\ (t \notin DOMAIN trip_lookup /\ k \in DOMAIN direction_lookup)
                  => resolved_headsign = direction_lookup[k]
            /\ (t \notin DOMAIN trip_lookup /\ k \notin DOMAIN direction_lookup)
                  => resolved_headsign = "Unknown"
            /\ resolved_headsign \in Headsigns \cup {"Unknown"}

\* A vehicle whose trip and whose direction key both match, with different
\* headsigns, has been given the trip's headsign.
C3_Witness ==
    /\ resolved_headsign # "none"
    /\ Normalize(vehicle.trip_id) \in DOMAIN trip_lookup
    /\ <<Normalize(vehicle.route_id), vehicle.direction_id>> \in DOMAIN direction_lookup
    /\ trip_lookup[Normalize(vehicle.trip_id)]
          # direction_lookup[<<Normalize(vehicle.route_id), vehicle.direction_id>>]
    /\ resolved_headsign = trip_lookup[Normalize(vehicle.trip_id)]

-----------------------------------------------------------------------------
(* Properties of the search (SpecSearch) *)

\* C10: Search(q, k) with k >= 1 returns min(k, size of the index) entries in
\* non-increasing order of score; none on an empty index and all of them when
\* k exceeds the size of the index.
C10_SearchReturnsTopK ==
    topK >= 1 =>
        /\ Len(results) = (IF topK < Len(poi_index) THEN topK ELSE Len(poi_index))
        /\ \A i \in 1..Len(results) : \A j \in i..Len(results) :
              results[i].score >= results[j].score

\* A search that cut a ranked list of differing scores at topK.
C10_Witness ==
    /\ topK >= 1
    /\ topK < Len(poi_index)
    /\ Len(results) = topK
    /\ \E i \in 1..Len(poi_index) : \E j \in 1..Len(poi_index) :
          Cosine(Embed(query), poi_index[i].embedding)
              # Cosine(Embed(query), poi_index[j].embedding)

-----------------------------------------------------------------------------
(* Properties of the loop's scheduling (Spec, SpecStop) *)

\* C11, as claimed: feed fetches are never reentrant.  At most one request is
\* in flight, and one is in flight exactly while the loop waits in
\* requests.get; the fetch of tick n+1 is sent only after the n earlier ticks
\* have each been fetched, published and slept; a request never waits past its
\* timeout; and a stop of the loop takes effect only between ticks: when the
\* loop has stopped or ended, no request is in flight and every frame fetched
\* has been published.
C11_FetchesNeverReentrant ==
    /\ in_flight \in {0, 1}
    /\ (in_flight = 1) <=> (pc = "fetching")
    /\ pc = "fetching" =>
          /\ fetches = tick + 1
          /\ published = tick
          /\ slept = SleepSeconds * tick
    /\ fetches - published \in {0, 1}
    /\ waited <= FetchTimeout
    /\ pc # "fetching" => waited = 0
    /\ pc \in {"stopped", "done"} =>
          in_flight = 0 /\ published = fetches /\ slept = SleepSeconds * fetches

\* C14: the loop terminates after exactly 100 ticks.  Until the end some step
\* of the loop is always possible and the tick count never passes 100; at the
\* end 100 requests were sent, 100 charts published and 100 sleeps of 2 seconds
\* taken, nothing is in flight and no further step exists, so no fetch or
\* snapshot update follows the 100th tick, whatever the fetches' outcomes were.
C14_LoopTerminates ==
    /\ tick <= NumTicks
    /\ fetches <= NumTicks
    /\ pc = "done" \/ ENABLED Next
    /\ tick = NumTicks => pc = "done"
    /\ pc = "done" =>
          /\ tick = NumTicks
          /\ fetches = NumTicks
          /\ published = NumTicks
          /\ slept = SleepSeconds * NumTicks
          /\ in_flight = 0
          /\ ~ ENABLED Next

\* The loop has ended after a run in which some fetch succeeded and the last
\* one failed.
C14_Witness ==
    /\ pc = "done"
    /\ tick = NumTicks
    /\ fetches = NumTicks
    /\ had_good
    /\ Failed(outcome)

-----------------------------------------------------------------------------
(* Properties of load_static_lookups on repeated keys (SpecDup) *)

\* The keys the rows of the two tables carry.
RouteKey(row) == ReplaceHSL(row.route_id)
TripKey(row) == ReplaceHSL(row.trip_id)
DirKey(row) == <<ReplaceHSL(row.route_id), row.direction_id>>

\* The index of the last trip row whose trip key, or direction key, is k.
LastTripIndex(k) ==
    LET is == {i \in 1..Len(tripsTable.rows) : TripKey(tripsTable.rows[i]) = k}
    IN  CHOOSE i \in is : \A j \in is : j <= i
LastDirIndex(k) ==
    LET is == {i \in 1..Len(tripsTable.rows) : DirKey(tripsTable.rows[i]) = k}
    IN  CHOOSE i \in is : \A j \in is : j <= i

\* C12: duplicate keys are last-write-wins in table order.  After a load in
\* which both tables were read, each map has exactly the keys of its table's
\* rows, the routes map holds for each route_id the record of the last row with
\* that normalised route_id, the trip map holds for each trip_id the headsign
\* of the last row with that trip_id, and the direction map holds for each
\* (route_id, direction_id) the headsign of the last row with that key.
C12_LastWriteWins ==
    (pc = "loaded" /\ ~ RoutesTableFails(routesTable) /\ ~ TripsTableFails(tripsTable)) =>
        /\ DOMAIN routes_dict =
             {RouteKey(routesTable.rows[i]) : i \in 1..Len(routesTable.rows)}
        /\ \A k \in DOMAIN routes_dict :
             routes_dict[k] = RouteRecord(LastRouteRow(k), routesTable.columns)
        /\ DOMAIN trip_lookup =
             {TripKey(tripsTable.rows[i]) : i \in 1..Len(tripsTable.rows)}
        /\ \A k \in DOMAIN trip_lookup :
             trip_lookup[k] = tripsTable.rows[LastTripIndex(k)].trip_headsign
        /\ DOMAIN direction_lookup =
             {DirKey(tripsTable.rows[i]) : i \in 1..Len(tripsTable.rows)}
        /\ \A k \in DOMAIN direction_lookup :
             direction_lookup[k] = tripsTable.rows[LastDirIndex(k)].trip_headsign

\* Both tables were loaded; the two route rows share a normalised route_id and
\* differ in their record, the two trip rows share a trip_id and a direction
\* key and differ in their headsign, and each map holds the later one.
C12_Witness ==
    /\ pc = "loaded"
    /\ Len(routesTable.rows) = 2
    /\ RouteKey(routesTable.rows[1]) = RouteKey(routesTable.rows[2])
    /\ routes_dict[RouteKey(routesTable.rows[1])].short = routesTable.rows[2].route_short_name
    /\ routesTable.rows[1].route_short_name # routesTable.rows[2].route_short_name
    /\ Len(tripsTable.rows) = 2
    /\ TripKey(tripsTable.rows[1]) = TripKey(tripsTable.rows[2])
    /\ DirKey(tripsTable.rows[1]) = DirKey(tripsTable.rows[2])
    /\ tripsTable.rows[1].trip_headsign # tripsTable.rows[2].trip_headsign
    /\ trip_lookup[TripKey(tripsTable.rows[1])] = tripsTable.rows[2].trip_headsign
    /\ direction_lookup[DirKey(tripsTable.rows[1])] = tripsTable.rows[2].trip_headsign

-----------------------------------------------------------------------------
(* Properties of get_boarding_info (SpecBoarding) *)

\* The departures of the response by position: <<i, j>> is the j-th departure
\* of the i-th stop.
Positions ==
    {p \in (1..Len(candidates)) \X (1..MaxDepartures) :
        p[2] <= Len(candidates[p[1]].place.stoptimesWithoutPatterns)}
DepartureAt(p) == candidates[p[1]].place.stoptimesWithoutPatterns[p[2]]
Targeted(p) == InList(DepartureAt(p).shortName, target_routes_list)
\* The wait of a departure, in whole minutes from the time of the call.
WaitAt(p) == MinutesAway(DepartureAt(p), clock[1])

\* The request or the handling of the response fails.
HandlingFails ==
    resp # "ok" \/ \E p \in Positions : Targeted(p) /\ DepartureAt(p).arrival_null

\* The departures of the asked-for routes whose wait m has 0 <= m < 999.
Eligible == {p \in Positions : Targeted(p) /\ 0 <= WaitAt(p) /\ WaitAt(p) < 999}

\* p comes before q in (stop, departure) iteration order.
Before(p, q) == p[1] < q[1] \/ (p[1] = q[1] /\ p[2] < q[2])

\* C13, as claimed: get_boarding_info returns None when the request or the
\* handling of the response fails or no departure is eligible; otherwise it
\* returns the option of the eligible departure with the smallest wait, the
\* first one in (stop, departure) order among equal waits, and its walk_time
\* is at least 1.
C13_BoardingIsEarliestFirst ==
    pc = "boarded" =>
        IF HandlingFails \/ Eligible = {} THEN boarding = None
        ELSE /\ boarding # None
             /\ \E p \in Eligible :
                   /\ \A q \in Eligible \ {p} :
                         WaitAt(p) < WaitAt(q) \/ (WaitAt(p) = WaitAt(q) /\ Before(p, q))
                   /\ boarding[1].minutes_away = WaitAt(p)
                   /\ boarding[1].route = DepartureAt(p).shortName
                   /\ boarding[1].stop_name = candidates[p[1]].place.name
                   /\ boarding[1].distance = candidates[p[1]].distance
                   /\ boarding[1].lat = candidates[p[1]].place.lat
                   /\ boarding[1].lon = candidates[p[1]].place.lon
             /\ boarding[1].walk_time >= 1

====
